---- MODULE Spec2Model ----
(***************************************************************************)
(* Model of get_stock_changes.py: the ticker normaliser, the nearest-      *)
(* trading-day resolver, the per-ticker fetch with its change arithmetic,  *)
(* and the refresh cycle (fetch loop, organise by category, averages).     *)
(*                                                                         *)
(* Ticker symbols are sequences of one-character strings, so that suffix   *)
(* tests and str.split('.') are computed rather than assumed.  Prices and  *)
(* percentages are exact rationals <<numerator, denominator>>; binary      *)
(* floating-point rounding is not modelled.                                *)
(***************************************************************************)
EXTENDS Integers, Sequences, FiniteSets, TLC

VARIABLES
    \* normaliser harness: input, first result, second result, position
    nz_in, nz_out, nz_again, nz_pc,
    \* resolver harness: provider answer, target date, return value, position
    rs_hist, rs_target, rs_ret, rs_pc,
    \* refresh cycle: the parsed catalogue, the module-level collections of
    \* lines 257-305, the st.cache_data store of get_stock_data_for_ticker,
    \* the tuples the fetch loop has already visited, the last uncached
    \* execution of get_stock_data_for_ticker, and the script's position
    categories, unique_tickers_to_fetch, visited, processed_tickers_info,
    failed_tickers, results, category_averages, summary_data_list,
    cache, last_call, pc

nz_vars == <<nz_in, nz_out, nz_again, nz_pc>>

rs_vars == <<rs_hist, rs_target, rs_ret, rs_pc>>

run_vars ==
    <<categories, unique_tickers_to_fetch, visited, processed_tickers_info,
      failed_tickers, results, category_averages, summary_data_list,
      cache, last_call, pc>>

vars == <<nz_vars, rs_vars, run_vars>>

\* ------------------------------------------------------------------------
\* Bounds
\* ------------------------------------------------------------------------
\* longest generated raw symbol fed to the normaliser
MaxRawLen == 5

\* distinct symbols in the largest single-category catalogue of a cycle
MaxSymbols == 2

\* day number of the "now" captured by a fetch in the refresh cycle
NowDay == 40

\* calendar days 1..MaxDate appear in the series given to the resolver harness
MaxDate == 3

\* ------------------------------------------------------------------------
\* String helpers (Python str methods on sequences of characters)
\* ------------------------------------------------------------------------
\* str.endswith
EndsWith(t, s) ==
    /\ Len(s) <= Len(t)
    /\ SubSeq(t, Len(t) - Len(s) + 1, Len(t)) = s

\* '.' in ticker
HasDot(t) == \E i \in 1..Len(t) : t[i] = "."

\* positions of '.' in t
DotPositions(t) == { i \in 1..Len(t) : t[i] = "." }

MaxOf(S) == CHOOSE x \in S : \A y \in S : y <= x

MinOf(S) == CHOOSE x \in S : \A y \in S : x <= y

\* ticker.split('.')[0] for a ticker that contains '.'
FirstPart(t) == SubSeq(t, 1, MinOf(DotPositions(t)) - 1)

\* ticker.split('.')[-1] for a ticker that contains '.'
LastPart(t) == SubSeq(t, MaxOf(DotPositions(t)) + 1, Len(t))

\* ------------------------------------------------------------------------
\* adjust_ticker_for_yfinance
\* ------------------------------------------------------------------------
\* the cascade of exact-match returns, lines 69-104; `otherwise` is what the
\* function goes on to compute when no line matches
override_rules(ticker, otherwise) ==
    IF ticker = <<"1", "2", "1", "1">> THEN <<"1", "2", "1", "1", ".", "H", "K">>
    ELSE IF ticker = <<"1", "2", "1", "1", ".", "H", "K">> THEN <<"1", "2", "1", "1", ".", "H", "K">>
    ELSE IF ticker = <<"0", "7", "0", "0", ".", "H", "K">> THEN <<"0", "7", "0", "0", ".", "H", "K">>
    ELSE IF ticker = <<"0", "1", "7", "5">> THEN <<"0", "1", "7", "5", ".", "H", "K">>
    ELSE IF ticker = <<"0", "9", "9", "2">> THEN <<"0", "9", "9", "2", ".", "H", "K">>
    ELSE IF ticker = <<"R", "N", "O", ".", "P", "A">> THEN <<"R", "N", "O", ".", "P", "A">>
    ELSE IF ticker = <<"A", "I", "R">> THEN <<"A", "I", "R", ".", "P", "A">>
    ELSE IF ticker = <<"S", "A", "F">> THEN <<"S", "A", "F", ".", "P", "A">>
    ELSE IF ticker = <<"7", "2", "0", "3">> THEN <<"7", "2", "0", "3", ".", "T">>
    ELSE IF ticker = <<"7", "2", "6", "9">> THEN <<"7", "2", "6", "9", ".", "T">>
    ELSE IF ticker = <<"7", "2", "6", "7">> THEN <<"7", "2", "6", "7", ".", "T">>
    ELSE IF ticker = <<"7", "2", "0", "1">> THEN <<"7", "2", "0", "1", ".", "T">>
    ELSE IF ticker = <<"0", "0", "5", "9", "3", "0">> THEN <<"0", "0", "5", "9", "3", "0", ".", "K", "S">>
    ELSE IF ticker = <<"0", "0", "5", "3", "8", "0">> THEN <<"0", "0", "5", "3", "8", "0", ".", "K", "S">>
    ELSE IF ticker = <<"N", "E", "S", "N">> THEN <<"N", "E", "S", "N", ".", "S", "W">>
    ELSE IF ticker = <<"V", "O", "W", "3">> THEN <<"V", "O", "W", "3", ".", "D", "E">>
    ELSE IF ticker = <<"I", "T", "X">> THEN <<"I", "T", "X", ".", "M", "C">>
    ELSE IF ticker = <<"M", "&", "M">> THEN <<"M", "&", "M", ".", "N", "S">>
    ELSE IF ticker = <<"R", "I", "L">> THEN <<"R", "E", "L", "I", "A", "N", "C", "E", ".", "N", "S">>
    ELSE IF ticker = <<"6", "0", "0", "1", "0", "4">> THEN <<"6", "0", "0", "1", "0", "4", ".", "S", "S">>
    ELSE IF ticker = <<"B", "A", ".">> THEN <<"B", "A", ".", "L">>
    ELSE IF ticker = <<"R", "R", ".">> THEN <<"R", "R", ".", "L">>
    ELSE IF ticker = <<"L", "D", "O">> THEN <<"L", "D", "O", ".", "M", "I">>
    ELSE IF ticker = <<"N", "S", "R", "G", "Y">> THEN <<"N", "S", "R", "G", "Y">>
    ELSE IF ticker = <<"P", "H", "G">> THEN <<"P", "H", "G">>
    ELSE otherwise

known_suffixes ==
    { <<".", "H", "K">>, <<".", "P", "A">>, <<".", "T">>, <<".", "K", "S">>, <<".", "S", "W">>, <<".", "D", "E">>, <<".", "M", "C">>, <<".", "N", "S">>, <<".", "S", "S">>, <<".", "L">>, <<".", "M", "I">> }

\* lines 106-118 with the known-suffix branch returning split('.')[0]
suffix_rules_strip_known(ticker) ==
    IF \E s \in known_suffixes : EndsWith(ticker, s) THEN FirstPart(ticker)
    ELSE IF HasDot(ticker)
         THEN IF Len(LastPart(ticker)) < 1 \/ Len(LastPart(ticker)) > 3
              THEN FirstPart(ticker)
              ELSE ticker
    ELSE ticker

\* lines 106-118: known suffix, then the dot / suffix-length rule, then
\* the default
suffix_rules(ticker) ==
    IF \E s \in known_suffixes : EndsWith(ticker, s) THEN ticker
    ELSE IF HasDot(ticker)
         THEN IF Len(LastPart(ticker)) < 1 \/ Len(LastPart(ticker)) > 3
              THEN FirstPart(ticker)
              ELSE ticker
    ELSE ticker

\* the function with the dot / suffix-length rule tried before the cascade
adjust_dot_rule_first(ticker) ==
    IF /\ HasDot(ticker)
       /\ ~ \E s \in known_suffixes : EndsWith(ticker, s)
       /\ (Len(LastPart(ticker)) < 1 \/ Len(LastPart(ticker)) > 3)
    THEN FirstPart(ticker)
    ELSE override_rules(ticker, suffix_rules(ticker))

adjust_ticker_for_yfinance(ticker) ==
    override_rules(ticker, suffix_rules(ticker))

\* ------------------------------------------------------------------------
\* Optional values and exact arithmetic
\* ------------------------------------------------------------------------
\* Python None, for every field that holds a number, a message or nothing
None == <<>>

\* a number n/d is <<n, d>> in lowest terms with d > 0
Num(p) == <<p, 1>>

\* float('inf')
Inf == <<1, 0>>

Abs(x) == IF x < 0 THEN 0 - x ELSE x

RECURSIVE GCD(_, _)
GCD(a, b) == IF b = 0 THEN a ELSE GCD(b, a % b)

Norm(n, d) ==
    LET g == GCD(Abs(n), Abs(d))
    IN  IF d < 0 THEN <<(0 - n) \div g, (0 - d) \div g>>
        ELSE <<n \div g, d \div g>>

\* ((a - b) / b) * 100 for b # 0
PctChange(a, b) ==
    Norm((a[1] * b[2] - b[1] * a[2]) * b[2] * 100, a[2] * b[2] * b[1])

RAdd(a, b) == Norm(a[1] * b[2] + b[1] * a[2], a[2] * b[2])

\* ------------------------------------------------------------------------
\* get_closest_price_yf
\* ------------------------------------------------------------------------
\* What ticker_obj.history(...) does: it raises, or returns a frame whose
\* index is timezone-naive or carries the exchange's zone, with one row per
\* trading day (midnight, exchange-local), ascending.
IndexZones == { "naive", "west_of_utc", "east_of_utc" }

\* the date of hist_index_naive.normalize() for a row stamped midnight of
\* calendar day d: tz_convert('UTC') moves midnight east of Greenwich to
\* the previous UTC day and leaves midnight west of Greenwich on the same day
NaiveDate(d, tz) == IF tz = "east_of_utc" THEN d - 1 ELSE d

\* hist[hist_index_naive.normalize() < target_dt]
FilterBefore(rows, tz, target_date) ==
    SelectSeq(rows, LAMBDA r : NaiveDate(r.date, tz) < target_date)

\* hist[hist_index_naive.normalize() <= target_dt]
FilterOnOrBefore(rows, tz, target_date) ==
    SelectSeq(rows, LAMBDA r : NaiveDate(r.date, tz) <= target_date)

get_closest_price_yf(hist, target_date) ==
    IF hist.raises THEN None
    ELSE IF hist.rows = <<>> THEN None
    ELSE LET hist_filtered == FilterOnOrBefore(hist.rows, hist.tz, target_date)
         IN  IF hist_filtered = <<>> THEN None
             ELSE hist_filtered[Len(hist_filtered)].close

\* ------------------------------------------------------------------------
\* get_stock_data_for_ticker
\* ------------------------------------------------------------------------
\* lines 173-176 for one captured "now": a business day, numbered NowDay,
\* in a month that follows a 31-day month.  Five business days back from a
\* business day is seven calendar days; one month back is 31 days.
today_date == NowDay

date_5d_ago == NowDay - 7

date_1mo_ago == NowDay - 31

default_error_return(message) ==
    [today_price |-> None, d5_ago_price |-> None, mo1_ago_price |-> None,
     change_5d |-> None, change_1mo |-> None, error |-> <<message>>]

\* lines 184-189
change_5d_pct(price_today, price_5d) ==
    IF price_today # None /\ price_5d # None
    THEN IF price_5d # Num(0) THEN PctChange(price_today, price_5d)
         ELSE IF price_today = Num(0) THEN Num(0)
         ELSE Inf
    ELSE None

\* lines 185, 190-193
change_1mo_pct(price_today, price_1mo) ==
    IF price_today # None /\ price_1mo # None
    THEN IF price_1mo # Num(0) THEN PctChange(price_today, price_1mo)
         ELSE IF price_1mo = Num(0) THEN Num(0)
         ELSE Inf
    ELSE None

\* What the provider does during one execution: yf.Ticker(...) returns or
\* raises; stock.info is a usable dict, None, a dict without marketState,
\* regularMarketPrice and currency, or raises; the three history() calls
\* answer as in HistAnswers; `calc` is "raise" when a statement of lines
\* 172-202 outside get_closest_price_yf raises.  The branch of lines 133-137
\* is left out: a constructor call does not evaluate to None.  The messages
\* are kept up to the exception text appended at lines 142, 165 and 206.
get_stock_data_for_ticker(adjusted_ticker, provider) ==
    IF provider.init = "raise" THEN default_error_return("Ticker Init Error")
    ELSE IF provider.info = "none"
         THEN default_error_return("Info Fetch Returned None")
    ELSE IF provider.info = "invalid"
         THEN default_error_return("Invalid/Missing Info Data")
    ELSE IF provider.info = "raise"
         THEN default_error_return("Info Fetch Error")
    ELSE IF provider.calc = "raise"
         THEN default_error_return("History Fetch Error")
    ELSE LET price_today == get_closest_price_yf(provider.h_today, today_date)
             price_5d    == get_closest_price_yf(provider.h_5d, date_5d_ago)
             price_1mo   == get_closest_price_yf(provider.h_1mo, date_1mo_ago)
         IN  [today_price   |-> price_today,
              d5_ago_price  |-> price_5d,
              mo1_ago_price |-> price_1mo,
              change_5d     |-> change_5d_pct(price_today, price_5d),
              change_1mo    |-> change_1mo_pct(price_today, price_1mo),
              error         |-> None]

\* the stage of the execution at which the provider failed, if any
FailedStage(provider) ==
    IF provider.init = "raise" THEN "init"
    ELSE IF provider.info # "ok" THEN "info"
    ELSE IF \/ provider.calc = "raise"
            \/ provider.h_today.raises
            \/ provider.h_5d.raises
            \/ provider.h_1mo.raises
         THEN "history"
    ELSE "none"

\* ------------------------------------------------------------------------
\* Category averages, lines 294-298
\* ------------------------------------------------------------------------
RECURSIVE SumOver(_, _)
SumOver(vals, keys) ==
    IF keys = {} THEN Num(0)
    ELSE LET k == CHOOSE x \in keys : TRUE
         IN  RAdd(vals[k], SumOver(vals, keys \ {k}))

\* statistics.mean of a non-empty list, the list given as a function from
\* the dict keys that contributed an element to the element
mean(vals) ==
    IF \E k \in DOMAIN vals : vals[k] = Inf THEN Inf
    ELSE LET total == SumOver(vals, DOMAIN vals)
         IN  Norm(total[1], total[2] * Cardinality(DOMAIN vals))

\* the comprehension with only the `is not None` test
valid_changes_keep_inf(tickers_data, field) ==
    [k \in { x \in DOMAIN tickers_data : tickers_data[x][field] # None }
        |-> tickers_data[k][field]]

\* [data.get(field) for data in tickers_data.values()
\*    if data.get(field) is not None and data.get(field) != float('inf')]
valid_changes(tickers_data, field) ==
    [k \in { x \in DOMAIN tickers_data :
                 /\ tickers_data[x][field] # None
                 /\ tickers_data[x][field] # Inf }
        |-> tickers_data[k][field]]

average(tickers_data, field) ==
    LET valid == valid_changes(tickers_data, field)
    IN  IF DOMAIN valid # {} THEN mean(valid) ELSE None

\* ------------------------------------------------------------------------
\* Parts of the state a specification does not use stay at these values
\* ------------------------------------------------------------------------
NoTicker == << "<none>" >>

HistRaises == [raises |-> TRUE, tz |-> "naive", rows |-> <<>>]

NormIdle ==
    /\ nz_in = NoTicker
    /\ nz_out = NoTicker
    /\ nz_again = NoTicker
    /\ nz_pc = "idle"

ResolveIdle ==
    /\ rs_hist = HistRaises
    /\ rs_target = 0
    /\ rs_ret = None
    /\ rs_pc = "idle"

\* ------------------------------------------------------------------------
\* The refresh cycle, lines 250-305
\* ------------------------------------------------------------------------
\* Catalogues as parse_categories_and_tickers returns them: a dict in
\* section order, every list non-empty, no raw symbol twice in a list.
\* one symbol listed under two categories with different descriptions
CatalogueSharedSymbol ==
    [order |-> <<"Aerospace", "Defense">>,
     items |-> ("Aerospace" :> <<[ticker |-> <<"A", "I", "R">>, company_name |-> "Airbus", industry |-> "Aircraft"]>>) @@
                  ("Defense" :> <<[ticker |-> <<"A", "I", "R">>, company_name |-> "Airbus SE", industry |-> "Military"]>>)]

\* two raw symbols of one category that normalise to the same symbol
CatalogueTwoSpellings ==
    [order |-> <<"Defense">>,
     items |-> ("Defense" :> <<[ticker |-> <<"B", "A", ".">>, company_name |-> "BAE Systems", industry |-> "Military"],
                              [ticker |-> <<"B", "A", ".", "L">>, company_name |-> "BAE", industry |-> "Aircraft"]>>)]

\* a raw symbol that the normaliser reduces to the empty string
CatalogueEmptySymbol ==
    [order |-> <<"Industrials", "Other">>,
     items |-> ("Industrials" :> <<[ticker |-> <<"G", "E">>, company_name |-> "General Electric", industry |-> "Conglomerate"]>>) @@
                  ("Other" :> <<[ticker |-> <<".", "1", "2", "3", "4">>, company_name |-> "Unlisted", industry |-> "Other"]>>)]

\* the same entry under two categories
CatalogueRepeatedEntry ==
    [order |-> <<"Aerospace", "Europe">>,
     items |-> ("Aerospace" :> <<[ticker |-> <<"A", "I", "R">>, company_name |-> "Airbus", industry |-> "Aircraft"]>>) @@
                  ("Europe" :> <<[ticker |-> <<"A", "I", "R">>, company_name |-> "Airbus", industry |-> "Aircraft"]>>)]

Listed ==
    << [ticker |-> <<"G", "E">>, company_name |-> "General Electric",
        industry |-> "Conglomerate"],
       [ticker |-> <<"R", "T", "X">>, company_name |-> "Raytheon",
        industry |-> "Aerospace"],
       [ticker |-> <<"L", "M", "T">>, company_name |-> "Lockheed Martin",
        industry |-> "Defense"] >>

\* the first MaxSymbols entries of Listed in one category
CatalogueOneCategory ==
    [order |-> <<"Industrials">>,
     items |-> ("Industrials" :>
                    SubSeq(Listed, 1, IF MaxSymbols < Len(Listed)
                                      THEN MaxSymbols ELSE Len(Listed)))]

Catalogues ==
    { CatalogueOneCategory,
      CatalogueSharedSymbol,
      CatalogueTwoSpellings,
      CatalogueEmptySymbol,
      CatalogueRepeatedEntry }

\* closes the provider reports during a cycle
Prices == { 0, 100 }

\* answers of one history() call for a given target date: it raises, it
\* returns no rows, only a row dated after the target, or a row on the target
HistAnswersFor(target_date) ==
    { HistRaises,
      [raises |-> FALSE, tz |-> "naive", rows |-> <<>>],
      [raises |-> FALSE, tz |-> "naive",
       rows |-> <<[date |-> target_date + 1, close |-> Num(100)]>>] } \cup
    { [raises |-> FALSE, tz |-> "naive",
       rows |-> <<[date |-> target_date, close |-> Num(p)]>>] : p \in Prices }

NoRows == [raises |-> FALSE, tz |-> "naive", rows |-> <<>>]

ProviderStops(i, f, c) ==
    [init |-> i, info |-> f, calc |-> c,
     h_today |-> NoRows, h_5d |-> NoRows, h_1mo |-> NoRows]

\* provider behaviours of one execution; the fields read after the point
\* where the execution stops are fixed
Providers ==
    { ProviderStops("raise", "ok", "ok"),
      ProviderStops("ok", "none", "ok"),
      ProviderStops("ok", "invalid", "ok"),
      ProviderStops("ok", "raise", "ok"),
      ProviderStops("ok", "ok", "raise") } \cup
    { [init |-> "ok", info |-> "ok", calc |-> "ok",
       h_today |-> a, h_5d |-> b, h_1mo |-> c] :
          a \in HistAnswersFor(today_date),
          b \in HistAnswersFor(date_5d_ago),
          c \in HistAnswersFor(date_1mo_ago) }

NotCalled == [ticker |-> NoTicker, failed |-> "not called", ret |-> None]

EmptyDict == [x \in {} |-> None]

RunIdle ==
    /\ categories = [order |-> <<>>, items |-> EmptyDict]
    /\ unique_tickers_to_fetch = {}
    /\ visited = {}
    /\ processed_tickers_info = EmptyDict
    /\ failed_tickers = <<>>
    /\ results = EmptyDict
    /\ category_averages = EmptyDict
    /\ summary_data_list = <<>>
    /\ cache = EmptyDict
    /\ last_call = NotCalled
    /\ pc = "idle"

CategoryNames(c) == { c.order[i] : i \in 1..Len(c.order) }

Entries(c, category) ==
    { c.items[category][i] : i \in 1..Len(c.items[category]) }

\* dict assignment d[k] = v
Put(d, k, v) == [x \in DOMAIN d \cup {k} |-> IF x = k THEN v ELSE d[x]]

\* lines 250-259: the script has loaded a catalogue and created its
\* collections; nothing is cached yet
Init ==
    /\ NormIdle
    /\ ResolveIdle
    /\ categories \in Catalogues
    /\ unique_tickers_to_fetch = {}
    /\ visited = {}
    /\ processed_tickers_info = EmptyDict
    /\ failed_tickers = <<>>
    /\ results = [category \in CategoryNames(categories) |-> EmptyDict]
    /\ category_averages = EmptyDict
    /\ summary_data_list = <<>>
    /\ cache = EmptyDict
    /\ last_call = NotCalled
    /\ pc = "collect"

AllEntries(c) ==
    UNION { Entries(c, category) : category \in CategoryNames(c) }

\* lines 263-269; `if adjusted_ticker:` leaves out the empty string
CollectTickers ==
    /\ pc = "collect"
    /\ unique_tickers_to_fetch' =
           { <<adjust_ticker_for_yfinance(e.ticker), e.ticker,
               e.company_name, e.industry>> :
                 e \in { x \in AllEntries(categories) :
                             adjust_ticker_for_yfinance(x.ticker) # <<>> } }
    /\ pc' = "fetch"
    /\ UNCHANGED <<categories, visited, processed_tickers_info, failed_tickers,
                   results, category_averages, summary_data_list, cache,
                   last_call, nz_vars, rs_vars>>

\* lines 273-280, for the tuple t and the dict stock_data the call returned
StoreFetched(t, stock_data) ==
    /\ processed_tickers_info' =
           Put(processed_tickers_info, t[1],
               [today_price   |-> stock_data.today_price,
                d5_ago_price  |-> stock_data.d5_ago_price,
                mo1_ago_price |-> stock_data.mo1_ago_price,
                change_5d     |-> stock_data.change_5d,
                change_1mo    |-> stock_data.change_1mo,
                error         |-> stock_data.error,
                raw_ticker    |-> t[2],
                company_name  |-> t[3],
                industry      |-> t[4]])
    /\ failed_tickers' =
           IF stock_data.error # None
           THEN Append(failed_tickers, <<t[1], stock_data.error>>)
           ELSE failed_tickers
    /\ visited' = visited \cup {t}

\* one iteration of the loop of line 271 whose call at line 272 is answered
\* by st.cache_data from its store
FetchCached ==
    /\ pc = "fetch"
    /\ \E t \in unique_tickers_to_fetch \ visited :
          /\ t[1] \in DOMAIN cache
          /\ StoreFetched(t, cache[t[1]])
    /\ UNCHANGED <<categories, unique_tickers_to_fetch, results,
                   category_averages, summary_data_list, cache, last_call,
                   pc, nz_vars, rs_vars>>

\* one iteration of the loop of line 271 whose call at line 272 executes
\* the function body; st.cache_data stores what it returned
FetchFresh ==
    /\ pc = "fetch"
    /\ \E t \in unique_tickers_to_fetch \ visited :
          /\ t[1] \notin DOMAIN cache
          /\ \E provider \in Providers :
                LET stock_data == get_stock_data_for_ticker(t[1], provider)
                IN  /\ StoreFetched(t, stock_data)
                    /\ cache' = Put(cache, t[1], stock_data)
                    /\ last_call' = [ticker |-> t[1],
                                     failed |-> FailedStage(provider),
                                     ret    |-> stock_data]
    /\ UNCHANGED <<categories, unique_tickers_to_fetch, results,
                   category_averages, summary_data_list, pc,
                   nz_vars, rs_vars>>

\* ttl=900 at line 121: a stored entry expires while the loop is running.
\* Only the expiry of an entry that the loop will ask for again is tracked.
CacheExpire ==
    /\ pc = "fetch"
    /\ \E t \in unique_tickers_to_fetch \ visited :
          /\ t[1] \in DOMAIN cache
          /\ cache' = [x \in DOMAIN cache \ {t[1]} |-> cache[x]]
    /\ UNCHANGED <<categories, unique_tickers_to_fetch, visited,
                   processed_tickers_info, failed_tickers, results,
                   category_averages, summary_data_list, last_call, pc,
                   nz_vars, rs_vars>>

\* lines 283-288, after the loop of line 271 has visited every tuple
Organize ==
    /\ pc = "fetch"
    /\ visited = unique_tickers_to_fetch
    /\ results' =
           [category \in CategoryNames(categories) |->
               [adjusted_ticker \in
                    { adjust_ticker_for_yfinance(e.ticker) :
                          e \in Entries(categories, category) }
                      \cap DOMAIN processed_tickers_info
                  |-> processed_tickers_info[adjusted_ticker]]]
    /\ pc' = "average"
    /\ UNCHANGED <<categories, unique_tickers_to_fetch, visited,
                   processed_tickers_info, failed_tickers, category_averages,
                   summary_data_list, cache, last_call, nz_vars, rs_vars>>

\* lines 291-305
Averages ==
    /\ pc = "average"
    /\ category_averages' =
           [category \in DOMAIN results |->
               [avg_5d  |-> average(results[category], "change_5d"),
                avg_1mo |-> average(results[category], "change_1mo")]]
    /\ summary_data_list' =
           [i \in 1..Len(categories.order) |->
               [Category |-> categories.order[i],
                avg_5d   |-> average(results[categories.order[i]], "change_5d"),
                avg_1mo  |-> average(results[categories.order[i]], "change_1mo")]]
    /\ pc' = "done"
    /\ UNCHANGED <<categories, unique_tickers_to_fetch, visited,
                   processed_tickers_info, failed_tickers, results, cache,
                   last_call, nz_vars, rs_vars>>

Next ==
    \/ CollectTickers
    \/ FetchCached
    \/ FetchFresh
    \/ CacheExpire
    \/ Organize
    \/ Averages

Spec == Init /\ [][Next]_vars

\* ------------------------------------------------------------------------
\* Resolver harness: one call on a drawn provider answer
\* ------------------------------------------------------------------------
ClosePrices == { 0, 100, 110 }

Dates == 1..MaxDate

\* every ascending series over the days 1..d
RECURSIVE SeriesUpTo(_)
SeriesUpTo(d) ==
    IF d = 0 THEN { <<>> }
    ELSE SeriesUpTo(d - 1) \cup
         { Append(s, [date |-> d, close |-> Num(p)]) :
               s \in SeriesUpTo(d - 1), p \in ClosePrices }

HistAnswers ==
    { HistRaises } \cup
    { [raises |-> FALSE, tz |-> z, rows |-> s] :
          z \in IndexZones, s \in SeriesUpTo(MaxDate) }

InitResolve ==
    /\ NormIdle
    /\ RunIdle
    /\ rs_hist \in HistAnswers
    /\ rs_target \in Dates
    /\ rs_ret = None
    /\ rs_pc = "start"

Resolve ==
    /\ rs_pc = "start"
    /\ rs_ret' = get_closest_price_yf(rs_hist, rs_target)
    /\ rs_pc' = "done"
    /\ UNCHANGED <<rs_hist, rs_target, nz_vars, run_vars>>

NextResolve == Resolve

SpecResolve == InitResolve /\ [][NextResolve]_vars

\* ------------------------------------------------------------------------
\* Normaliser harness: one call, then a second call on the result
\* ------------------------------------------------------------------------
\* the exact-match lines 69-104 read as data: <<raw symbol, returned symbol>>
OverrideTable ==
    { <<<<"1", "2", "1", "1">>, <<"1", "2", "1", "1", ".", "H", "K">>>>,
      <<<<"1", "2", "1", "1", ".", "H", "K">>, <<"1", "2", "1", "1", ".", "H", "K">>>>,
      <<<<"0", "7", "0", "0", ".", "H", "K">>, <<"0", "7", "0", "0", ".", "H", "K">>>>,
      <<<<"0", "1", "7", "5">>, <<"0", "1", "7", "5", ".", "H", "K">>>>,
      <<<<"0", "9", "9", "2">>, <<"0", "9", "9", "2", ".", "H", "K">>>>,
      <<<<"R", "N", "O", ".", "P", "A">>, <<"R", "N", "O", ".", "P", "A">>>>,
      <<<<"A", "I", "R">>, <<"A", "I", "R", ".", "P", "A">>>>,
      <<<<"S", "A", "F">>, <<"S", "A", "F", ".", "P", "A">>>>,
      <<<<"7", "2", "0", "3">>, <<"7", "2", "0", "3", ".", "T">>>>,
      <<<<"7", "2", "6", "9">>, <<"7", "2", "6", "9", ".", "T">>>>,
      <<<<"7", "2", "6", "7">>, <<"7", "2", "6", "7", ".", "T">>>>,
      <<<<"7", "2", "0", "1">>, <<"7", "2", "0", "1", ".", "T">>>>,
      <<<<"0", "0", "5", "9", "3", "0">>, <<"0", "0", "5", "9", "3", "0", ".", "K", "S">>>>,
      <<<<"0", "0", "5", "3", "8", "0">>, <<"0", "0", "5", "3", "8", "0", ".", "K", "S">>>>,
      <<<<"N", "E", "S", "N">>, <<"N", "E", "S", "N", ".", "S", "W">>>>,
      <<<<"V", "O", "W", "3">>, <<"V", "O", "W", "3", ".", "D", "E">>>>,
      <<<<"I", "T", "X">>, <<"I", "T", "X", ".", "M", "C">>>>,
      <<<<"M", "&", "M">>, <<"M", "&", "M", ".", "N", "S">>>>,
      <<<<"R", "I", "L">>, <<"R", "E", "L", "I", "A", "N", "C", "E", ".", "N", "S">>>>,
      <<<<"6", "0", "0", "1", "0", "4">>, <<"6", "0", "0", "1", "0", "4", ".", "S", "S">>>>,
      <<<<"B", "A", ".">>, <<"B", "A", ".", "L">>>>,
      <<<<"R", "R", ".">>, <<"R", "R", ".", "L">>>>,
      <<<<"L", "D", "O">>, <<"L", "D", "O", ".", "M", "I">>>>,
      <<<<"N", "S", "R", "G", "Y">>, <<"N", "S", "R", "G", "Y">>>>,
      <<<<"P", "H", "G">>, <<"P", "H", "G">>>> }

OverrideKeys == { p[1] : p \in OverrideTable }

OverrideValues == { p[2] : p \in OverrideTable }

Alphabet == { "A", "L", "." }

RECURSIVE StringsOfLen(_)
StringsOfLen(n) ==
    IF n = 0 THEN { <<>> }
    ELSE { Append(s, c) : s \in StringsOfLen(n - 1), c \in Alphabet }

Bases == { <<"A">>, <<"A", ".", "L">>, <<"1", "2", "1", "1">> }

RawInputs ==
    UNION { StringsOfLen(n) : n \in 1..MaxRawLen }
      \cup OverrideKeys \cup OverrideValues
      \cup { b \o s : b \in Bases, s \in known_suffixes }

InitNorm ==
    /\ ResolveIdle
    /\ RunIdle
    /\ nz_in \in RawInputs
    /\ nz_out = NoTicker
    /\ nz_again = NoTicker
    /\ nz_pc = "start"

NormalizeOnce ==
    /\ nz_pc = "start"
    /\ nz_out' = adjust_ticker_for_yfinance(nz_in)
    /\ nz_pc' = "once"
    /\ UNCHANGED <<nz_in, nz_again, rs_vars, run_vars>>

NormalizeAgain ==
    /\ nz_pc = "once"
    /\ nz_again' = adjust_ticker_for_yfinance(nz_out)
    /\ nz_pc' = "twice"
    /\ UNCHANGED <<nz_in, nz_out, rs_vars, run_vars>>

NextNorm == NormalizeOnce \/ NormalizeAgain

SpecNorm == InitNorm /\ [][NextNorm]_vars

\* ------------------------------------------------------------------------
\* Properties
\* ------------------------------------------------------------------------
AllAbsent(r) ==
    /\ r.today_price = None
    /\ r.d5_ago_price = None
    /\ r.mo1_ago_price = None
    /\ r.change_5d = None
    /\ r.change_1mo = None

NamedFailed(symbol) ==
    \E i \in 1..Len(failed_tickers) : failed_tickers[i][1] = symbol

\* C1: every record get_stock_data_for_ticker returns has error absent
\* exactly when today_price is present, and a symbol stored without a
\* today_price is reported in failed_tickers.
C1_ErrorAbsentIffPricePresent ==
    /\ last_call.failed # "not called" =>
           (last_call.ret.error = None <=> last_call.ret.today_price # None)
    /\ \A k \in DOMAIN processed_tickers_info :
           /\ processed_tickers_info[k].error = None
                  <=> processed_tickers_info[k].today_price # None
           /\ processed_tickers_info[k].today_price = None => NamedFailed(k)

\* the change rule of the design: absent if an input is absent, 0.0 for
\* 0 against 0, infinite for non-zero against 0, else the percentage
computeChange(current, baseline) ==
    IF current = None \/ baseline = None THEN None
    ELSE IF baseline = Num(0) /\ current = Num(0) THEN Num(0)
    ELSE IF baseline = Num(0) THEN Inf
    ELSE PctChange(current, baseline)

\* C2: on a record built by the success path, change_5d and change_1mo are
\* computeChange of today's price against the respective baseline, so a
\* change is infinite exactly when its baseline is 0 and today's price is not.
C2_ChangesAreComputeChange ==
    (last_call.failed # "not called" /\ last_call.ret.error = None) =>
        /\ last_call.ret.change_5d =
               computeChange(last_call.ret.today_price,
                             last_call.ret.d5_ago_price)
        /\ last_call.ret.change_1mo =
               computeChange(last_call.ret.today_price,
                             last_call.ret.mo1_ago_price)

\* rows of the fetched series whose normalised date is on or before the target
Qualifying ==
    { i \in 1..Len(rs_hist.rows) :
          NaiveDate(rs_hist.rows[i].date, rs_hist.tz) <= rs_target }

\* C3: get_closest_price_yf returns the close of the latest row whose
\* normalised date is on or before the target date, and None when the
\* provider call raises, the series is empty or every row is later.
C3_LatestCloseOnOrBefore ==
    rs_pc = "done" =>
        IF rs_hist.raises \/ Qualifying = {}
        THEN rs_ret = None
        ELSE \E i \in Qualifying :
                 /\ \A j \in Qualifying :
                        rs_hist.rows[j].date <= rs_hist.rows[i].date
                 /\ rs_ret = rs_hist.rows[i].close

\* a call that kept two rows, dropped a later one and returned a close
C3_Witness ==
    /\ rs_pc = "done"
    /\ ~ rs_hist.raises
    /\ Cardinality(Qualifying) >= 2
    /\ Cardinality(Qualifying) < Len(rs_hist.rows)
    /\ rs_ret # None

\* C4: whichever stage of get_stock_data_for_ticker fails, the record it
\* returns has error present, and a record with error present has the three
\* prices and the two changes absent.
C4_FailureGivesErrorRecord ==
    last_call.failed # "not called" =>
        /\ last_call.failed # "none" => last_call.ret.error # None
        /\ last_call.ret.error # None => AllAbsent(last_call.ret)

\* the symbols of a category whose change counts towards the average
Counted(category, field) ==
    { k \in DOMAIN results[category] :
          /\ results[category][k].error = None
          /\ results[category][k][field] # None
          /\ results[category][k][field] # Inf }

AverageIsMeanOfCounted(category, field, avg) ==
    LET V == Counted(category, field)
    IN  IF V = {} THEN avg = None
        ELSE /\ avg # None
             /\ avg # Inf
             /\ Norm(avg[1] * Cardinality(V), avg[2]) =
                    SumOver([k \in V |-> results[category][k][field]], V)

\* C5: each category average is the arithmetic mean of the changes of the
\* records with error absent that are neither absent nor infinite, and is
\* None when there is no such change.
C5_AverageOverValidChanges ==
    pc = "done" =>
        /\ DOMAIN category_averages = CategoryNames(categories)
        /\ \A c \in CategoryNames(categories) :
               /\ AverageIsMeanOfCounted(c, "change_5d",
                                         category_averages[c].avg_5d)
               /\ AverageIsMeanOfCounted(c, "change_1mo",
                                         category_averages[c].avg_1mo)

\* a category where an infinite 5-day change was left out of the 5-day
\* average and two different 1-month changes were averaged
C5_Witness ==
    /\ pc = "done"
    /\ \E c \in CategoryNames(categories) :
           /\ \E k \in DOMAIN results[c] : results[c][k].change_5d = Inf
           /\ category_averages[c].avg_5d = Num(0 - 100)
           /\ Cardinality(Counted(c, "change_1mo")) = 2
           /\ category_averages[c].avg_1mo = Num(0 - 50)

HasKnownSuffix(t) == \E sfx \in known_suffixes : EndsWith(t, sfx)

\* C6: for an input that ends in a recognised suffix, normalising the
\* result again gives the same result.
C6_IdempotentOnKnownSuffix ==
    (nz_pc = "twice" /\ HasKnownSuffix(nz_in)) => nz_again = nz_out

\* an override output with a recognised suffix, itself not an override
\* key, normalised twice
C6_Witness ==
    /\ nz_pc = "twice"
    /\ HasKnownSuffix(nz_in)
    /\ nz_in \in OverrideValues \ OverrideKeys
    /\ nz_again = nz_in

\* C7: for a raw symbol that is a key of the override table the result is
\* the mapped value.
C7_OverrideWins ==
    nz_pc \in { "once", "twice" } =>
        \A p \in OverrideTable : nz_in = p[1] => nz_out = p[2]

\* the key 'BA.', which the suffix-length rule would cut to 'BA'
C7_Witness ==
    /\ nz_pc = "once"
    /\ nz_in = <<"B", "A", ".">>
    /\ nz_out = <<"B", "A", ".", "L">>

\* everything before the last '.'
BeforeLastDot(t) == SubSeq(t, 1, MaxOf(DotPositions(t)) - 1)

\* C8: for a raw symbol with no override, no recognised suffix and at
\* least one '.', the result is everything before the last '.' when the
\* part after it has fewer than 1 or more than 3 characters, and the symbol
\* itself otherwise.
C8_SplitOnLastDot ==
    ( /\ nz_pc \in { "once", "twice" }
      /\ nz_in \notin OverrideKeys
      /\ ~ HasKnownSuffix(nz_in)
      /\ HasDot(nz_in) ) =>
        nz_out = IF Len(LastPart(nz_in)) < 1 \/ Len(LastPart(nz_in)) > 3
                 THEN BeforeLastDot(nz_in)
                 ELSE nz_in

\* C9: after the cycle every catalogue entry has a record under its
\* category, every category has an average entry, and failed_tickers names
\* a symbol exactly when the symbol's record has error present.
C9_CycleCoversEveryEntry ==
    pc = "done" =>
        /\ \A c \in CategoryNames(categories) :
               \A e \in Entries(categories, c) :
                   adjust_ticker_for_yfinance(e.ticker) \in DOMAIN results[c]
        /\ DOMAIN category_averages = CategoryNames(categories)
        /\ \A t \in unique_tickers_to_fetch :
               NamedFailed(t[1]) <=> processed_tickers_info[t[1]].error # None

\* C10: a record stored under a category carries the raw ticker, company
\* name and industry of an entry of that category that normalises to the
\* record's symbol.
C10_RecordDescribesOwnCategory ==
    pc \in { "average", "done" } =>
        \A c \in CategoryNames(categories) :
            \A k \in DOMAIN results[c] :
                \E e \in Entries(categories, c) :
                    /\ adjust_ticker_for_yfinance(e.ticker) = k
                    /\ results[c][k].raw_ticker = e.ticker
                    /\ results[c][k].company_name = e.company_name
                    /\ results[c][k].industry = e.industry

====
